---------------------------- MODULE Spec2Model ----------------------------
(***************************************************************************)
(* aws_networker: mapper.py collects the VPCs, subnets, route tables and   *)
(* security groups of an AWS account into a nested dictionary, and         *)
(* mermaid_maker.py (NetworkDiagramGenerator) turns such a dictionary into *)
(* the lines of a Mermaid "graph TB" diagram.                              *)
(*                                                                         *)
(* Text.  A Python string is modelled as the sequence of its pieces.  The  *)
(* strings on which the code calls .replace('-', '_') (resource ids and    *)
(* availability zones) are given character by character; a literal part of *)
(* an f-string is one piece, and so is a value the code only copies (a     *)
(* name, a CIDR block).  A diagram line is the concatenation of the pieces *)
(* of its f-string, self.diagram is a sequence of lines.                   *)
(*                                                                         *)
(* Dictionaries are records; a key that may be missing is a field that may *)
(* be missing from the record's DOMAIN.  A JSON list is a sequence.        *)
(***************************************************************************)
EXTENDS Integers, Sequences, FiniteSets, TLC

VARIABLES
    aws,           \* what the ec2 client's describe_* calls return (NoAccount: none)
    network_data,  \* the content of network_data.json read by main() (NoFile: none)
    response,      \* the value returned by get_network_resources (NoResponse: none yet)
    generator,     \* the NetworkDiagramGenerator: [constructed, data, diagram]
    last,          \* outcome of the generator's latest generate_diagram call
    outputs,       \* every outcome any generate_diagram call on these data has had
    calls,         \* number of generate_diagram calls made so far
    tokens         \* a string and its successive images under .replace('-', '_')

vars == <<aws, network_data, response, generator, last, outputs, calls, tokens>>

----------------------------------------------------------------------------
(* Bounds of the model. *)

MaxSize == 4
MaxRouteTables == 2
MaxSecurityGroups == 2
MaxRoutes == 2
MaxCalls == 2
MaxLen == 4
MaxReplaces == 2

----------------------------------------------------------------------------
(* Sequences. *)

RECURSIVE FoldLeft(_, _, _)
FoldLeft(Op(_, _), acc, s) ==
    IF s = <<>> THEN acc ELSE FoldLeft(Op, Op(acc, Head(s)), Tail(s))

SeqsUpTo(S, n) == UNION {[1..k -> S] : k \in 0..n}

Range(s) == {s[i] : i \in DOMAIN s}

Digit(i) == ToString(i)

\* sep.join(parts)
RECURSIVE Join(_, _)
Join(sep, parts) ==
    IF parts = <<>> THEN <<>>
    ELSE IF Len(parts) = 1 THEN parts[1]
    ELSE parts[1] \o sep \o Join(sep, Tail(parts))

----------------------------------------------------------------------------
(* mermaid_maker.py *)

\* x.replace('-', '_') changing only the first hyphen (str.replace with count 1).
sanitize_first_only(raw) ==
    [i \in 1..Len(raw) |->
        IF raw[i] = "-" /\ (\A j \in 1..(i-1) : raw[j] # "-") THEN "_" ELSE raw[i]]

\* x.replace('-', '_'): every hyphen becomes an underscore, nothing else changes.
sanitize(raw) ==
    [i \in 1..Len(raw) |-> IF raw[i] = "-" THEN "_" ELSE raw[i]]

\* str.upper() on the protocol values that occur.
upper(protocol) ==
    [i \in 1..Len(protocol) |->
        CASE protocol[i] = "tcp" -> "TCP"
          [] protocol[i] = "udp" -> "UDP"
          [] protocol[i] = "icmp" -> "ICMP"
          [] protocol[i] = "All" -> "ALL"
          [] OTHER -> protocol[i]]

\* The accumulator of an emission: self.diagram, and the key of the KeyError
\* that ended it ("" while none was raised).  Once err is set nothing more is
\* appended: the exception leaves generate_diagram.
NoError == ""

Raise(acc, key) == [acc EXCEPT !.err = key]

Extend(acc, lines) == [acc EXCEPT !.diagram = @ \o lines]

\* The first key whose lookup fails while routes_str is built (route['destination']
\* is read before route['target'], route by route).
RECURSIVE RoutesKeyError(_)
RoutesKeyError(routes) ==
    IF routes = <<>> THEN NoError
    ELSE IF "destination" \notin DOMAIN Head(routes) THEN "destination"
    ELSE IF "target" \notin DOMAIN Head(routes) THEN "target"
    ELSE RoutesKeyError(Tail(routes))

RECURSIVE RulesKeyError(_)
RulesKeyError(rules) ==
    IF rules = <<>> THEN NoError
    ELSE IF "port_range" \notin DOMAIN Head(rules) THEN "port_range"
    ELSE RulesKeyError(Tail(rules))

routes_str(routes) ==
    Join(<<"<br/>">>,
         [i \in 1..Len(routes) |->
            <<"- ">> \o routes[i].destination \o <<" → ">> \o routes[i].target])

rules_str(rules) ==
    Join(<<"<br/>">>,
         [i \in 1..Len(rules) |->
            <<"- ">> \o upper(rules[i].protocol) \o <<" ">> \o rules[i].port_range
                \o <<" from ">> \o Join(<<", ">>, rules[i].sources)])

add_route_table(acc, rt, subnet_id) ==
    IF acc.err # NoError THEN acc
    ELSE IF RoutesKeyError(rt.routes) # NoError
         THEN Raise(acc, RoutesKeyError(rt.routes))
    ELSE LET rt_id == sanitize(rt.id)
         IN  Extend(acc,
               << <<"                rt_">> \o rt_id \o <<"[\"Route Table<br/>">>
                      \o routes_str(rt.routes) \o <<"\"]">>,
                  <<"                rt_">> \o rt_id \o <<" --> subnet_">> \o subnet_id >>)

add_security_group(acc, sg, subnet_id) ==
    IF acc.err # NoError THEN acc
    ELSE IF RulesKeyError(sg.rules_ingress) # NoError
         THEN Raise(acc, RulesKeyError(sg.rules_ingress))
    ELSE LET sg_id == sanitize(sg.id)
         IN  Extend(acc,
               << <<"                sg_">> \o sg_id \o <<"[\"">> \o sg.name
                      \o <<"<br/>Inbound:<br/>">> \o rules_str(sg.rules_ingress) \o <<"\"]">>,
                  <<"                sg_">> \o sg_id \o <<" --> subnet_">> \o subnet_id >>)

\* subnet.get('public'): a missing key gives None, which is false.
is_public(subnet) == "public" \in DOMAIN subnet /\ subnet.public

\* rt.get('subnet_associations', [])
subnet_associations(rt) ==
    IF "subnet_associations" \in DOMAIN rt THEN rt.subnet_associations ELSE <<>>

\* subnet['id'] in rt.get('subnet_associations', []) with the test negated.
is_associated_negated(subnet, rt) == subnet.id \notin Range(subnet_associations(rt))

\* subnet['id'] in rt.get('subnet_associations', [])
is_associated(subnet, rt) == subnet.id \in Range(subnet_associations(rt))

\* The loop over vpc['security_groups'] filtered like the route tables' loop.
security_groups_for_filtered(subnet, vpc) ==
    SelectSeq(vpc.security_groups,
              LAMBDA sg : "subnet_associations" \in DOMAIN sg
                          /\ subnet.id \in Range(sg.subnet_associations))

\* The security groups _process_subnet adds to a subnet: all of the VPC's.
security_groups_for(subnet, vpc) == vpc.security_groups

process_subnet(acc, subnet, vpc) ==
    IF acc.err # NoError THEN acc
    ELSE
    LET subnet_id == sanitize(subnet.id)
        subnet_type == IF is_public(subnet) THEN "Public" ELSE "Private"
        opened == Extend(acc,
                    << <<"            subgraph subnet_">> \o subnet_id
                          \o <<"[\"", subnet_type, " Subnet (">> \o subnet.cidr \o <<")\"]">> >>)
        RtStep(a, rt) == IF is_associated(subnet, rt)
                         THEN add_route_table(a, rt, subnet_id) ELSE a
        SgStep(a, sg) == add_security_group(a, sg, subnet_id)
        withRts == FoldLeft(RtStep, opened, vpc.route_tables)
        withSgs == FoldLeft(SgStep, withRts, security_groups_for(subnet, vpc))
    IN  IF withSgs.err # NoError THEN withSgs
        ELSE Extend(withSgs, << <<"            end">> >>)

\* _process_az without its closing self.diagram.append('        end').
process_az_unclosed(acc, az, subnets, vpc) ==
    IF acc.err # NoError THEN acc
    ELSE
    LET az_id == sanitize(az)
        opened == Extend(acc,
                    << <<"        subgraph ">> \o az_id \o <<"[\"">> \o az \o <<"\"]">> >>)
        Step(a, subnet) == process_subnet(a, subnet, vpc)
    IN  FoldLeft(Step, opened, subnets)

process_az(acc, az, subnets, vpc) ==
    IF acc.err # NoError THEN acc
    ELSE
    LET az_id == sanitize(az)
        opened == Extend(acc,
                    << <<"        subgraph ">> \o az_id \o <<"[\"">> \o az \o <<"\"]">> >>)
        Step(a, subnet) == process_subnet(a, subnet, vpc)
        body == FoldLeft(Step, opened, subnets)
    IN  IF body.err # NoError THEN body
        ELSE Extend(body, << <<"        end">> >>)

\* az_subnets with every subnet filed under the first availability zone seen.
group_by_az_first_key(subnets) ==
    IF subnets = <<>> THEN <<>>
    ELSE << [az |-> subnets[1].az, subnets |-> subnets] >>

\* az_subnets: a dict keyed by az in insertion order, each value the list of
\* the subnets of that az in the order of vpc['subnets'].
group_by_az(subnets) ==
    LET Step(groups, subnet) ==
            IF \E g \in DOMAIN groups : groups[g].az = subnet.az
            THEN [g \in DOMAIN groups |->
                    IF groups[g].az = subnet.az
                    THEN [groups[g] EXCEPT !.subnets = Append(@, subnet)]
                    ELSE groups[g]]
            ELSE Append(groups, [az |-> subnet.az, subnets |-> <<subnet>>])
    IN  FoldLeft(Step, <<>>, subnets)

\* The gateway edges taken from the grouped subnets instead of vpc['subnets'].
gateway_subnets_grouped(vpc) ==
    LET Step(all, g) == all \o g.subnets
    IN  SelectSeq(FoldLeft(Step, <<>>, group_by_az(vpc.subnets)), is_public)

\* The subnets that get a gateway edge, in the order of vpc['subnets'].
gateway_subnets(vpc) == SelectSeq(vpc.subnets, is_public)

process_vpc(acc, vpc) ==
    IF acc.err # NoError THEN acc
    ELSE
    LET vpc_id == sanitize(vpc.id)
        opened == Extend(acc,
                    << <<"    subgraph ">> \o vpc_id \o <<"[\"">> \o vpc.name
                          \o <<" (">> \o vpc.cidr \o <<")\"]">> >>)
        AzStep(a, g) == process_az(a, g.az, g.subnets, vpc)
        body == FoldLeft(AzStep, opened, group_by_az(vpc.subnets))
        pub == gateway_subnets(vpc)
    IN  IF body.err # NoError THEN body
        ELSE Extend(body,
               << <<"    end">>,
                  <<"    igw_">> \o vpc_id \o <<"[\"Internet Gateway\"]">> >>
               \o [i \in 1..Len(pub) |->
                     <<"    igw_">> \o vpc_id \o <<" --> subnet_">> \o sanitize(pub[i].id)])

StylingLines ==
    << <<"    %% Styling">>,
       <<"    classDef vpc fill:#f5f5f5,stroke:#333,stroke-width:2px">>,
       <<"    classDef az fill:#e6f3ff,stroke:#333,stroke-width:1px">>,
       <<"    classDef subnet fill:#fff,stroke:#333,stroke-width:1px">>,
       <<"    classDef component fill:#fff,stroke:#666,stroke-width:1px,stroke-dasharray: 5 5">>,
       <<>>,
       <<"    %% Apply styles">>,
       <<"    class vpc vpc">>,
       <<"    class az1 az">>,
       <<"    class pub_subnet,priv_subnet subnet">>,
       <<"    class pub_rt,web_sg,igw component">> >>

add_styling(acc) ==
    IF acc.err # NoError THEN acc ELSE Extend(acc, StylingLines)

\* self.diagram = [] in place of the assignment: the declaration is lost.
start_diagram_empty(old) == <<>>

\* self.diagram.extend(['graph TB']) in place of the assignment.
start_diagram_keeping(old) == old \o << <<"graph TB">> >>

\* self.diagram = ['graph TB']: whatever an earlier call left is dropped.
start_diagram(old) == << <<"graph TB">> >>

\* The VPCs walked in reverse.
vpcs_in_order_reversed(data) ==
    [i \in 1..Len(data.vpcs) |-> data.vpcs[Len(data.vpcs) + 1 - i]]

\* for vpc in self.data['vpcs']
vpcs_in_order(data) == data.vpcs

\* generate_diagram up to its return statement: the final self.diagram and err.
generate_diagram(data, old) ==
    add_styling(FoldLeft(process_vpc,
                         [diagram |-> start_diagram(old), err |-> NoError],
                         vpcs_in_order(data)))

\* '\n    '.join(self.diagram)
joined(diagram) == Join(<<"\n    ">>, diagram)

----------------------------------------------------------------------------
(* mapper.py *)

\* d.get(key, default)
Get(d, key, default) == IF key \in DOMAIN d THEN d[key] ELSE default

get_name_tag(tags) ==
    IF tags = <<>> THEN <<"Unnamed">>
    ELSE LET named == SelectSeq(tags, LAMBDA tag : tag.Key = "Name")
         IN  IF named = <<>> THEN <<"Unnamed">> ELSE named[1].Value

\* ec2.describe_subnets / describe_route_tables / describe_security_groups
\* with Filters=[{'Name': 'vpc-id', 'Values': [vpc_id]}]
describe_filtered(resources, vpc_id) ==
    SelectSeq(resources, LAMBDA r : r.VpcId = vpc_id)

collect_subnet(subnet) ==
    [id |-> subnet.SubnetId,
     name |-> get_name_tag(Get(subnet, "Tags", <<>>)),
     cidr |-> subnet.CidrBlock,
     az |-> subnet.AvailabilityZone,
     public |-> Get(subnet, "MapPublicIpOnLaunch", FALSE)]

\* A route as boto3 returns it is a dict, here the sequence of its items
\* [k, v] in the dict's order.  The keys of a route that end in 'Id':
IdKeys ==
    {"GatewayId", "NatGatewayId", "InstanceId", "NetworkInterfaceId",
     "TransitGatewayId", "VpcPeeringConnectionId", "DestinationPrefixListId",
     "EgressOnlyInternetGatewayId", "LocalGatewayId", "CarrierGatewayId",
     "InstanceOwnerId"}

\* k.endswith('Id')
EndsWithId(k) == k \in IdKeys

\* The route's destination copied without a default: route['DestinationCidrBlock'].
route_destination_no_default(route) ==
    LET hits == SelectSeq(route, LAMBDA item : item.k = "DestinationCidrBlock")
    IN  IF hits = <<>> THEN <<>> ELSE hits[1].v

\* route.get('DestinationCidrBlock', 'Unknown')
route_destination(route) ==
    LET hits == SelectSeq(route, LAMBDA item : item.k = "DestinationCidrBlock")
    IN  IF hits = <<>> THEN <<"Unknown">> ELSE hits[1].v

\* next((v for k, v in route.items() if k.endswith('Id')), 'Unknown')
route_target(route) ==
    LET hits == SelectSeq(route, LAMBDA item : EndsWithId(item.k))
    IN  IF hits = <<>> THEN <<"Unknown">> ELSE hits[1].v

collect_route(route) ==
    [destination |-> route_destination(route), target |-> route_target(route)]

\* str() of what rule.get('FromPort', 'All') gives inside the f-string.
format_port(rule, key) ==
    IF key \in DOMAIN rule THEN ToString(rule[key]) ELSE "All"

collect_rule(rule) ==
    [protocol |-> Get(rule, "IpProtocol", <<"All">>),
     port_range |-> <<format_port(rule, "FromPort"), "-", format_port(rule, "ToPort")>>,
     sources |-> LET ranges == Get(rule, "IpRanges", <<>>)
                 IN  [i \in 1..Len(ranges) |-> ranges[i].CidrIp]]

collect_route_table(rt) ==
    [id |-> rt.RouteTableId,
     name |-> get_name_tag(Get(rt, "Tags", <<>>)),
     routes |-> [i \in 1..Len(rt.Routes) |-> collect_route(rt.Routes[i])],
     subnet_associations |->
        LET with_subnet == SelectSeq(Get(rt, "Associations", <<>>),
                                     LAMBDA assoc : "SubnetId" \in DOMAIN assoc)
        IN  [i \in 1..Len(with_subnet) |-> with_subnet[i].SubnetId]]

collect_security_group(sg) ==
    [id |-> sg.GroupId,
     name |-> sg.GroupName,
     description |-> sg.Description,
     rules_ingress |-> [i \in 1..Len(sg.IpPermissions) |-> collect_rule(sg.IpPermissions[i])]]

collect_vpc(account, vpc) ==
    LET subnets == describe_filtered(account.Subnets, vpc.VpcId)
        rts == describe_filtered(account.RouteTables, vpc.VpcId)
        sgs == describe_filtered(account.SecurityGroups, vpc.VpcId)
    IN  [id |-> vpc.VpcId,
         name |-> get_name_tag(Get(vpc, "Tags", <<>>)),
         cidr |-> vpc.CidrBlock,
         subnets |-> [i \in 1..Len(subnets) |-> collect_subnet(subnets[i])],
         route_tables |-> [i \in 1..Len(rts) |-> collect_route_table(rts[i])],
         security_groups |-> [i \in 1..Len(sgs) |-> collect_security_group(sgs[i])]]

\* The value get_network_resources returns.  Its body is JSON text; every
\* value in network_data is a str, a bool, a list or a dict with str keys, which
\* json.dumps and json.load give back unchanged, so the body is modelled by
\* the value it encodes.
get_network_resources(account) ==
    [statusCode |-> 200,
     body |-> [timestamp |-> account.aws_request_id,
               region |-> account.region_name,
               vpcs |-> [i \in 1..Len(account.Vpcs) |-> collect_vpc(account, account.Vpcs[i])]]]

----------------------------------------------------------------------------
(* The inputs: network models as main() may read them from network_data.json, *)
(* and AWS accounts as get_network_resources may find them.                   *)

AZs == { <<"u","s","-","e","a","s","t","-","1","a">>,
         <<"u","s","-","e","a","s","t","-","1","b">> }

AzA == <<"u","s","-","e","a","s","t","-","1","a">>
AzB == <<"u","s","-","e","a","s","t","-","1","b">>

\* Ids in AWS's form, a prefix, a hyphen and an identifier.
VpcId(v) == <<"v","p","c","-",Digit(v)>>
SubnetId(v, j) == <<"s","u","b","n","e","t","-",Digit(v),Digit(j)>>
RtId(v, k) == <<"r","t","b","-",Digit(v),Digit(k)>>
SgId(v, k) == <<"s","g","-",Digit(v),Digit(k)>>

Subnet(v, j, az, public) ==
    [id |-> SubnetId(v, j), name |-> <<"subnet ", Digit(j)>>,
     cidr |-> <<"10.", Digit(v), ".", Digit(j), ".0/24">>, az |-> az, public |-> public]

\* The same subnet without its 'public' key.
SubnetNoFlag(v, j, az) ==
    [id |-> SubnetId(v, j), name |-> <<"subnet ", Digit(j)>>,
     cidr |-> <<"10.", Digit(v), ".", Digit(j), ".0/24">>, az |-> az]

DefaultRoute == [destination |-> <<"0.0.0.0/0">>, target |-> <<"igw-1">>]
LocalRoute == [destination |-> <<"10.0.0.0/16">>, target |-> <<"local">>]

WebRule == [protocol |-> <<"tcp">>, port_range |-> <<"80", "-", "80">>,
            sources |-> << <<"0.0.0.0/0">> >>]
AnyRule == [protocol |-> <<"-1">>, port_range |-> <<"All", "-", "All">>,
            sources |-> << <<"10.0.0.0/8">>, <<"192.168.0.0/16">> >>]

RouteTable(v, k, routes, associations) ==
    [id |-> RtId(v, k), name |-> <<"rt ", Digit(k)>>, routes |-> routes,
     subnet_associations |-> associations]

\* The same route table without its 'subnet_associations' key.
RouteTableNoAssoc(v, k, routes) ==
    [id |-> RtId(v, k), name |-> <<"rt ", Digit(k)>>, routes |-> routes]

SecurityGroup(v, k, rules) ==
    [id |-> SgId(v, k), name |-> <<"web ", Digit(k)>>, description |-> <<"web tier">>,
     rules_ingress |-> rules]

Vpc(v, subnets, rts, sgs) ==
    [id |-> VpcId(v), name |-> <<"net ", Digit(v)>>, cidr |-> <<"10.", Digit(v), ".0.0/16">>,
     subnets |-> subnets, route_tables |-> rts, security_groups |-> sgs]

Model(vpcs) == [timestamp |-> <<"req-1">>, region |-> <<"us-east-1">>, vpcs |-> vpcs]

\* Topology: every model of at most MaxSize VPCs and subnets together, each
\* subnet in either availability zone and public or private; every VPC has
\* one security group and one route table, associated with its last subnet.
SubnetShapes == AZs \X BOOLEAN

RECURSIVE Layouts(_, _)
Layouts(nv, budget) ==
    IF nv = 0 THEN {<<>>}
    ELSE UNION {{<<shapes>> \o rest : rest \in Layouts(nv - 1, budget - Len(shapes))}
                : shapes \in SeqsUpTo(SubnetShapes, budget)}

TopologyVpc(v, shapes) ==
    LET n == Len(shapes)
    IN  Vpc(v,
            [j \in 1..n |-> Subnet(v, j, shapes[j][1], shapes[j][2])],
            << RouteTable(v, 1, <<DefaultRoute>>,
                          IF n = 0 THEN <<>> ELSE <<SubnetId(v, n)>>) >>,
            << SecurityGroup(v, 1, <<WebRule>>) >>)

TopologyModels ==
    {Model([v \in 1..Len(layout) |-> TopologyVpc(v, layout[v])])
        : layout \in UNION {Layouts(nv, MaxSize - nv) : nv \in 0..MaxSize}}

\* Associations: one VPC with two subnets (one without the 'public' key), up to
\* MaxRouteTables route tables associated with any of them, with none or
\* lacking the key, and up to MaxSecurityGroups security groups.
AssociationChoices ==
    {<<>>, <<SubnetId(1, 1)>>, <<SubnetId(1, 2)>>, <<SubnetId(1, 1), SubnetId(1, 2)>>}

RouteTableChoices(k) ==
    {RouteTableNoAssoc(1, k, <<DefaultRoute>>)}
    \cup {RouteTable(1, k, <<LocalRoute, DefaultRoute>>, a) : a \in AssociationChoices}

RouteTableLists ==
    UNION {{rts \in [1..n -> UNION {RouteTableChoices(k) : k \in 1..n}] :
                \A k \in 1..n : rts[k] \in RouteTableChoices(k)}
           : n \in 0..MaxRouteTables}

SecurityGroupLists ==
    {[k \in 1..n |-> SecurityGroup(1, k, IF k = 1 THEN <<WebRule, AnyRule>> ELSE <<>>)]
        : n \in 0..MaxSecurityGroups}

AssociationModels ==
    {Model(<< Vpc(1, <<Subnet(1, 1, AzA, TRUE), SubnetNoFlag(1, 2, AzB)>>, rts, sgs) >>)
        : rts \in RouteTableLists, sgs \in SecurityGroupLists}

\* Fields: one VPC with at most one subnet, one associated route table with up
\* to MaxRoutes routes that may lack 'destination' or 'target', and at most
\* one security group whose rules may lack 'port_range'.
RouteChoices ==
    {DefaultRoute,
     [target |-> <<"igw-1">>],
     [destination |-> <<"0.0.0.0/0">>],
     [origin |-> <<"CreateRoute">>]}

RuleNoPorts == [protocol |-> <<"tcp">>, sources |-> << <<"0.0.0.0/0">> >>]

RuleLists ==
    {<<>>, <<WebRule>>, <<RuleNoPorts>>, <<WebRule, RuleNoPorts>>, <<AnyRule, WebRule>>}

FieldModels ==
    {Model(<< Vpc(1, subnets,
                  << RouteTable(1, 1, routes, <<SubnetId(1, 1)>>) >>,
                  sgs) >>)
        : subnets \in {<<>>, <<Subnet(1, 1, AzA, TRUE)>>},
          routes \in SeqsUpTo(RouteChoices, MaxRoutes),
          sgs \in {<<>>} \cup {<<SecurityGroup(1, 1, rules)>> : rules \in RuleLists}}

Models == TopologyModels \cup AssociationModels \cup FieldModels

\* AWS accounts: what describe_vpcs, describe_subnets, describe_route_tables and
\* describe_security_groups return, with the keys boto3 may leave out.
NameTag(name) == [Key |-> "Name", Value |-> <<name>>]
OwnerTag == [Key |-> "Owner", Value |-> <<"ops">>]

TagChoices == {<<>>, <<OwnerTag>>, <<OwnerTag, NameTag("prod")>>}

RawVpcs ==
    {[VpcId |-> VpcId(1), CidrBlock |-> <<"10.1.0.0/16">>]}
    \cup {[VpcId |-> VpcId(1), CidrBlock |-> <<"10.1.0.0/16">>, Tags |-> t] : t \in TagChoices}

RawSubnetBase ==
    [SubnetId |-> SubnetId(1, 1), VpcId |-> VpcId(1), CidrBlock |-> <<"10.1.1.0/24">>,
     AvailabilityZone |-> AzA]

RawSubnets ==
    {RawSubnetBase}
    \cup {RawSubnetBase @@ ("MapPublicIpOnLaunch" :> p) : p \in BOOLEAN}

\* A subnet of another VPC, which the vpc-id filter keeps out of VPC 1.
ForeignSubnet ==
    [SubnetId |-> SubnetId(2, 1), VpcId |-> VpcId(2), CidrBlock |-> <<"10.2.1.0/24">>,
     AvailabilityZone |-> AzB, MapPublicIpOnLaunch |-> TRUE]

Item(k, v) == [k |-> k, v |-> v]

RawRouteChoices ==
    {<<Item("DestinationCidrBlock", <<"0.0.0.0/0">>), Item("GatewayId", <<"igw-1">>),
       Item("Origin", <<"CreateRoute">>), Item("State", <<"active">>)>>,
     <<Item("DestinationCidrBlock", <<"10.9.0.0/16">>), Item("Origin", <<"CreateRoute">>),
       Item("State", <<"blackhole">>)>>,
     <<Item("DestinationIpv6CidrBlock", <<"::/0">>), Item("GatewayId", <<"igw-1">>),
       Item("State", <<"active">>)>>,
     <<Item("DestinationIpv6CidrBlock", <<"::/0">>), Item("State", <<"blackhole">>)>>}

RawRouteTable(routes) ==
    [RouteTableId |-> RtId(1, 1), VpcId |-> VpcId(1), Routes |-> routes,
     Tags |-> <<NameTag("public")>>,
     Associations |-> << [RouteTableAssociationId |-> <<"rtbassoc-1">>, Main |-> TRUE],
                         [RouteTableAssociationId |-> <<"rtbassoc-2">>, Main |-> FALSE,
                          SubnetId |-> SubnetId(1, 1)] >>]

RawRange == [CidrIp |-> <<"0.0.0.0/0">>]

RawRuleLists ==
    {<<>>,
     <<[IpProtocol |-> <<"tcp">>, FromPort |-> 80, ToPort |-> 80, IpRanges |-> <<RawRange>>]>>,
     <<[IpProtocol |-> <<"-1">>, IpRanges |-> <<RawRange>>]>>,
     <<[IpProtocol |-> <<"tcp">>, FromPort |-> 22, ToPort |-> 22, IpRanges |-> <<RawRange>>],
       [IpProtocol |-> <<"-1">>, IpRanges |-> <<RawRange>>]>>,
     <<[IpProtocol |-> <<"icmp">>, FromPort |-> -1, IpRanges |-> <<>>]>>}

RawSecurityGroup(rules) ==
    [GroupId |-> SgId(1, 1), GroupName |-> <<"web">>, Description |-> <<"web tier">>,
     VpcId |-> VpcId(1), IpPermissions |-> rules]

Account(vpc, subnet, routes, rules) ==
    [aws_request_id |-> <<"req-1">>, region_name |-> <<"us-east-1">>,
     Vpcs |-> <<vpc>>,
     Subnets |-> <<ForeignSubnet, subnet>>,
     RouteTables |-> <<RawRouteTable(routes)>>,
     SecurityGroups |-> <<RawSecurityGroup(rules)>>]

DefaultRawRoute == <<Item("DestinationCidrBlock", <<"0.0.0.0/0">>), Item("GatewayId", <<"igw-1">>)>>

Accounts ==
    {Account(vpc, subnet, <<DefaultRawRoute>>, <<>>) : vpc \in RawVpcs, subnet \in RawSubnets}
    \cup {Account([VpcId |-> VpcId(1), CidrBlock |-> <<"10.1.0.0/16">>],
                  RawSubnetBase @@ ("MapPublicIpOnLaunch" :> TRUE), routes, rules)
            : routes \in SeqsUpTo(RawRouteChoices, MaxRoutes), rules \in RawRuleLists}
    \cup {[aws_request_id |-> <<"req-1">>, region_name |-> <<"us-east-1">>,
           Vpcs |-> <<>>, Subnets |-> <<ForeignSubnet>>, RouteTables |-> <<>>,
           SecurityGroups |-> <<>>]}

----------------------------------------------------------------------------
(* The state machine. *)

NoAccount == [present |-> FALSE]
NoFile == [present |-> FALSE]
NoResponse == [present |-> FALSE]
NoGenerator == [constructed |-> FALSE]
NoCall == [kind |-> "none"]

Init ==
    /\ \/ aws \in Accounts /\ network_data = NoFile
       \/ aws = NoAccount /\ network_data \in Models
    /\ response = NoResponse
    /\ generator = NoGenerator
    /\ last = NoCall
    /\ outputs = {}
    /\ calls = 0
    /\ tokens = <<>>

\* The Lambda handler get_network_resources(event, context).
GetNetworkResources ==
    /\ aws # NoAccount
    /\ response' = get_network_resources(aws)
    /\ UNCHANGED <<aws, network_data, generator, last, outputs, calls, tokens>>

\* The models a generator can be built from: the file main() loads, or the
\* body of the handler's response.
Available ==
    (IF network_data = NoFile THEN {} ELSE {network_data})
    \cup (IF response = NoResponse THEN {} ELSE {response.body})

\* NetworkDiagramGenerator(network_data)
Construct ==
    /\ \E d \in Available :
         generator' = [constructed |-> TRUE, data |-> d, diagram |-> <<>>]
    /\ last' = NoCall
    /\ UNCHANGED <<aws, network_data, response, outputs, calls, tokens>>

Outcome(acc) ==
    IF acc.err = NoError
    THEN [kind |-> "returned", text |-> joined(acc.diagram)]
    ELSE [kind |-> "raised", exception |-> "KeyError", key |-> acc.err]

\* generator.generate_diagram()
GenerateDiagram ==
    /\ generator.constructed
    /\ calls < MaxCalls
    /\ LET acc == generate_diagram(generator.data, generator.diagram)
       IN  /\ generator' = [generator EXCEPT !.diagram = acc.diagram]
           /\ last' = Outcome(acc)
           /\ outputs' = outputs \cup {[data |-> generator.data, outcome |-> Outcome(acc)]}
    /\ calls' = calls + 1
    /\ UNCHANGED <<aws, network_data, response, tokens>>

Next == GetNetworkResources \/ Construct \/ GenerateDiagram

Spec == Init /\ [][Next]_vars

\* The strings the replacement is tried on.
Alphabet == {"-", "_", "a"}

InitSanitize ==
    /\ tokens \in {<<raw>> : raw \in SeqsUpTo(Alphabet, MaxLen)}
    /\ aws = NoAccount
    /\ network_data = NoFile
    /\ response = NoResponse
    /\ generator = NoGenerator
    /\ last = NoCall
    /\ outputs = {}
    /\ calls = 0

\* token = token.replace('-', '_')
Replace ==
    /\ Len(tokens) <= MaxReplaces
    /\ tokens' = Append(tokens, sanitize(tokens[Len(tokens)]))
    /\ UNCHANGED <<aws, network_data, response, generator, last, outputs, calls>>

NextSanitize == Replace

SpecSanitize == InitSanitize /\ [][NextSanitize]_vars

----------------------------------------------------------------------------
(* Reading a diagram back: the vocabulary of the properties below.  None of *)
(* it uses the emitter's operators.                                          *)

Returned == last.kind = "returned"

\* The lines self.diagram holds.
Lines == generator.diagram

\* The diagram-safe form of an id: each hyphen an underscore.
Token(id) == [i \in DOMAIN id |-> IF id[i] = "-" THEN "_" ELSE id[i]]

HasPrefix(line, prefix) ==
    Len(line) >= Len(prefix) /\ SubSeq(line, 1, Len(prefix)) = prefix

Least(S) == CHOOSE k \in S : \A other \in S : k <= other

VpcEnd == <<"    end">>
AzEnd == <<"        end">>
SubnetEnd == <<"            end">>

VpcOpenPrefix(vpc) == <<"    subgraph ">> \o Token(vpc.id) \o <<"[\"">>
AzOpenLine(az) == <<"        subgraph ">> \o Token(az) \o <<"[\"">> \o az \o <<"\"]">>
SubnetOpenPrefix(subnet) == <<"            subgraph subnet_">> \o Token(subnet.id) \o <<"[\"">>
RtNodePrefix(rt) == <<"                rt_">> \o Token(rt.id) \o <<"[\"Route Table<br/>">>
RtEdge(rt, subnet) ==
    <<"                rt_">> \o Token(rt.id) \o <<" --> subnet_">> \o Token(subnet.id)
SgNodePrefix(sg) ==
    <<"                sg_">> \o Token(sg.id) \o <<"[\"">> \o sg.name \o <<"<br/>Inbound:<br/>">>
SgEdge(sg, subnet) ==
    <<"                sg_">> \o Token(sg.id) \o <<" --> subnet_">> \o Token(subnet.id)
IgwNode(vpc) == <<"    igw_">> \o Token(vpc.id) \o <<"[\"Internet Gateway\"]">>
IgwEdge(vpc, subnet) ==
    <<"    igw_">> \o Token(vpc.id) \o <<" --> subnet_">> \o Token(subnet.id)

IsVpcOpen(line) == line # <<>> /\ line[1] = "    subgraph "
IsAzOpen(line) == line # <<>> /\ line[1] = "        subgraph "
IsSubnetOpen(line) == line # <<>> /\ line[1] = "            subgraph subnet_"
IsRtLine(line) == line # <<>> /\ line[1] = "                rt_"
IsSgLine(line) == line # <<>> /\ line[1] = "                sg_"
IsIgwLine(line) == line # <<>> /\ line[1] = "    igw_"

\* The indexes of the lines that open the block of a VPC or of a subnet.
VpcOpens(vpc) == {i \in DOMAIN Lines : HasPrefix(Lines[i], VpcOpenPrefix(vpc))}
SubnetOpens(subnet) == {i \in DOMAIN Lines : HasPrefix(Lines[i], SubnetOpenPrefix(subnet))}

\* The indexes after i of the lines equal to closing.
ClosesAfter(i, closing) == {k \in DOMAIN Lines : k > i /\ Lines[k] = closing}

\* The block opened at line i ends at the first closing line of its level.
CloseOf(i, closing) == Least(ClosesAfter(i, closing))

\* Whether the 'public' flag of a subnet is true (neither false nor absent).
FlagIsTrue(subnet) == "public" \in DOMAIN subnet /\ subnet.public = TRUE

\* Whether the id of subnet is listed in rt's subnet_associations.
Listed(subnet, rt) ==
    /\ "subnet_associations" \in DOMAIN rt
    /\ \E n \in DOMAIN rt.subnet_associations : rt.subnet_associations[n] = subnet.id

TheVpcs == generator.data.vpcs

----------------------------------------------------------------------------
(* C1: in a returned diagram, for every VPC, route table rt and subnet s of  *)
(* the VPC, the node line of rt directly followed by the edge from rt to s   *)
(* stands between the opening and the closing line of s's subnet block if    *)
(* s.id is listed in rt.subnet_associations; otherwise neither line stands   *)
(* in that block.                                                            *)
C1_RouteTableIffAssociated ==
    Returned =>
      \A v \in DOMAIN TheVpcs :
        \A r \in DOMAIN TheVpcs[v].route_tables, n \in DOMAIN TheVpcs[v].subnets :
          LET rt == TheVpcs[v].route_tables[r]
              subnet == TheVpcs[v].subnets[n]
          IN  /\ SubnetOpens(subnet) # {}
              /\ \A i \in SubnetOpens(subnet) :
                   /\ ClosesAfter(i, SubnetEnd) # {}
                   /\ LET inside == (i + 1)..(CloseOf(i, SubnetEnd) - 1)
                      IN  IF Listed(subnet, rt)
                          THEN \E j \in inside :
                                  /\ HasPrefix(Lines[j], RtNodePrefix(rt))
                                  /\ j + 1 \in inside
                                  /\ Lines[j + 1] = RtEdge(rt, subnet)
                          ELSE \A j \in inside :
                                  /\ ~HasPrefix(Lines[j], RtNodePrefix(rt))
                                  /\ Lines[j] # RtEdge(rt, subnet)

\* A returned diagram of a VPC one of whose route tables is associated with
\* one subnet and not with another, and another lacks the key altogether.
C1_Witness ==
    /\ Returned
    /\ \E v \in DOMAIN TheVpcs :
         /\ \E r \in DOMAIN TheVpcs[v].route_tables :
              \E n, m \in DOMAIN TheVpcs[v].subnets :
                 /\ Listed(TheVpcs[v].subnets[n], TheVpcs[v].route_tables[r])
                 /\ ~Listed(TheVpcs[v].subnets[m], TheVpcs[v].route_tables[r])
         /\ \E r \in DOMAIN TheVpcs[v].route_tables :
              "subnet_associations" \notin DOMAIN TheVpcs[v].route_tables[r]

----------------------------------------------------------------------------
\* The lines of the VPC block opened at line i, opening and closing excluded.
VpcInside(i) == (i + 1)..(CloseOf(i, VpcEnd) - 1)

\* The line opening the availability-zone block that holds line i: the last
\* AZ opening before i, provided no AZ block was closed in between; 0 if none.
EnclosingAz(i) ==
    LET before == {a \in 1..(i - 1) : IsAzOpen(Lines[a])}
    IN  IF before = {} THEN 0
        ELSE LET a == CHOOSE a \in before : \A other \in before : other <= a
             IN  IF \E k \in a..i : Lines[k] = AzEnd THEN 0 ELSE a

(* C2: in a returned diagram every VPC block holds as many AZ blocks as the  *)
(* VPC's subnets have distinct az values, and every subnet of the VPC has    *)
(* exactly one subnet block, inside the VPC's block and inside the AZ block  *)
(* of its own az; the VPC block holds no other subnet block.                 *)
C2_AzGroupingExact ==
    Returned =>
      \A v \in DOMAIN TheVpcs :
        LET vpc == TheVpcs[v]
        IN  /\ Cardinality(VpcOpens(vpc)) = 1
            /\ \A i \in VpcOpens(vpc) :
                 /\ ClosesAfter(i, VpcEnd) # {}
                 /\ Cardinality({a \in VpcInside(i) : IsAzOpen(Lines[a])})
                       = Cardinality({vpc.subnets[n].az : n \in DOMAIN vpc.subnets})
                 /\ Cardinality({k \in VpcInside(i) : IsSubnetOpen(Lines[k])})
                       = Len(vpc.subnets)
                 /\ \A n \in DOMAIN vpc.subnets :
                      /\ Cardinality(SubnetOpens(vpc.subnets[n])) = 1
                      /\ \A k \in SubnetOpens(vpc.subnets[n]) :
                           /\ k \in VpcInside(i)
                           /\ EnclosingAz(k) \in VpcInside(i)
                           /\ Lines[EnclosingAz(k)] = AzOpenLine(vpc.subnets[n].az)

\* A returned diagram of a VPC with three subnets in two availability zones,
\* the first and the third in the same one.
C2_Witness ==
    /\ Returned
    /\ \E v \in DOMAIN TheVpcs :
         /\ Len(TheVpcs[v].subnets) = 3
         /\ TheVpcs[v].subnets[1].az = TheVpcs[v].subnets[3].az
         /\ TheVpcs[v].subnets[1].az # TheVpcs[v].subnets[2].az

----------------------------------------------------------------------------
\* The subnets of a VPC whose flag is true, in the order of vpc.subnets.
RECURSIVE PublicInOrder(_)
PublicInOrder(subnets) ==
    IF subnets = <<>> THEN <<>>
    ELSE (IF FlagIsTrue(Head(subnets)) THEN <<Head(subnets)>> ELSE <<>>)
            \o PublicInOrder(Tail(subnets))

(* C3: in a returned diagram, the line after the closing line of every VPC   *)
(* block is the node igw_<token of vpc.id>; the lines after it are the edges *)
(* from that node to the subnets whose public flag is true, one each, in the *)
(* order of vpc.subnets; and the diagram holds no other edge from that node  *)
(* (none for a subnet whose flag is false or absent).                        *)
C3_GatewayEdges ==
    Returned =>
      \A v \in DOMAIN TheVpcs :
        LET vpc == TheVpcs[v]
            pub == PublicInOrder(vpc.subnets)
        IN  \A i \in VpcOpens(vpc) :
              /\ ClosesAfter(i, VpcEnd) # {}
              /\ LET c == CloseOf(i, VpcEnd)
                 IN  /\ c + 1 + Len(pub) \in DOMAIN Lines
                     /\ Lines[c + 1] = IgwNode(vpc)
                     /\ \A n \in DOMAIN pub : Lines[c + 1 + n] = IgwEdge(vpc, pub[n])
                     /\ \A k \in DOMAIN Lines :
                          (\E n \in DOMAIN vpc.subnets : Lines[k] = IgwEdge(vpc, vpc.subnets[n]))
                             => k \in (c + 2)..(c + 1 + Len(pub))
                     /\ {k \in DOMAIN Lines : Lines[k] = IgwNode(vpc)} = {c + 1}

\* A returned diagram of a VPC whose public subnets come in another order
\* once grouped by availability zone, beside a subnet that is not public.
C3_Witness ==
    /\ Returned
    /\ \E v \in DOMAIN TheVpcs :
         LET subnets == TheVpcs[v].subnets
         IN  /\ Len(subnets) = 3
             /\ ~FlagIsTrue(subnets[1]) /\ FlagIsTrue(subnets[2]) /\ FlagIsTrue(subnets[3])
             /\ subnets[1].az = subnets[3].az /\ subnets[1].az # subnets[2].az

----------------------------------------------------------------------------
(* C6: in a returned diagram, for every VPC and every subnet s of it, the    *)
(* last lines of s's subnet block are, for each security group of the VPC in *)
(* the VPC's order, its node sg_<token of sg.id> and then its edge to s; the *)
(* block holds no other sg_ line, so none at all when the VPC has no         *)
(* security group.  No association is consulted.                             *)
C6_EverySecurityGroupInEverySubnet ==
    Returned =>
      \A v \in DOMAIN TheVpcs :
        LET vpc == TheVpcs[v]
            sgs == vpc.security_groups
        IN  \A n \in DOMAIN vpc.subnets :
              /\ SubnetOpens(vpc.subnets[n]) # {}
              /\ \A i \in SubnetOpens(vpc.subnets[n]) :
                   /\ ClosesAfter(i, SubnetEnd) # {}
                   /\ LET c == CloseOf(i, SubnetEnd)
                          first == c - 2 * Len(sgs)
                      IN  /\ first > i
                          /\ \A g \in DOMAIN sgs :
                               /\ HasPrefix(Lines[first + 2 * (g - 1)], SgNodePrefix(sgs[g]))
                               /\ Lines[first + 2 * (g - 1) + 1] = SgEdge(sgs[g], vpc.subnets[n])
                          /\ \A k \in (i + 1)..(first - 1) : ~IsSgLine(Lines[k])

\* A returned diagram of a VPC with two subnets and two security groups, and
\* a route table that is associated with one of the subnets only.
C6_Witness ==
    /\ Returned
    /\ \E v \in DOMAIN TheVpcs :
         /\ Len(TheVpcs[v].subnets) >= 2
         /\ Len(TheVpcs[v].security_groups) >= 2
         /\ \E r \in DOMAIN TheVpcs[v].route_tables :
              /\ Listed(TheVpcs[v].subnets[1], TheVpcs[v].route_tables[r])
              /\ ~Listed(TheVpcs[v].subnets[2], TheVpcs[v].route_tables[r])

----------------------------------------------------------------------------
\* The style footer, line by line.
Footer ==
    << <<"    %% Styling">>,
       <<"    classDef vpc fill:#f5f5f5,stroke:#333,stroke-width:2px">>,
       <<"    classDef az fill:#e6f3ff,stroke:#333,stroke-width:1px">>,
       <<"    classDef subnet fill:#fff,stroke:#333,stroke-width:1px">>,
       <<"    classDef component fill:#fff,stroke:#666,stroke-width:1px,stroke-dasharray: 5 5">>,
       <<>>,
       <<"    %% Apply styles">>,
       <<"    class vpc vpc">>,
       <<"    class az1 az">>,
       <<"    class pub_subnet,priv_subnet subnet">>,
       <<"    class pub_rt,web_sg,igw component">> >>

GraphDeclaration == <<"graph TB">>

\* The level of the block a line opens or closes (1: VPC, 2: AZ, 3: subnet),
\* 0 for a line that does neither.
OpensLevel(line) ==
    IF IsVpcOpen(line) THEN 1
    ELSE IF IsAzOpen(line) THEN 2
    ELSE IF IsSubnetOpen(line) THEN 3
    ELSE 0

ClosesLevel(line) ==
    IF line = VpcEnd THEN 1
    ELSE IF line = AzEnd THEN 2
    ELSE IF line = SubnetEnd THEN 3
    ELSE 0

Levels == {1, 2, 3}

\* How many blocks of a level the lines before line k have opened and not closed.
OpenBefore(k, level) ==
    Cardinality({j \in 1..(k - 1) : OpensLevel(Lines[j]) = level})
        - Cardinality({j \in 1..(k - 1) : ClosesLevel(Lines[j]) = level})

\* The blocks open before line k are exactly those of the levels 1..depth.
DepthIs(k, depth) ==
    \A level \in Levels : OpenBefore(k, level) = (IF level <= depth THEN 1 ELSE 0)

(* C9: whatever self.diagram holds (after a return, or after an exception    *)
(* cut the emission short): no prefix has more 'end' than 'subgraph' lines;  *)
(* a VPC block opens at depth 0, an AZ block inside a VPC block at depth 1,  *)
(* a subnet block inside an AZ block at depth 2, so the depth never exceeds  *)
(* 3; every 'end' closes the innermost open block, a subnet's before its     *)
(* AZ's, an AZ's before its VPC's; rt_ and sg_ lines stand at depth 3 only;  *)
(* the declaration, igw_ lines and the footer at depth 0 only; there is no   *)
(* other line; and when generate_diagram has returned no block is open.      *)
C9_BlocksProperlyNested ==
    generator.constructed =>
      /\ \A k \in DOMAIN Lines :
           LET line == Lines[k]
           IN  /\ Cardinality({j \in 1..k : ClosesLevel(Lines[j]) # 0})
                    <= Cardinality({j \in 1..k : OpensLevel(Lines[j]) # 0})
               /\ \E depth \in 0..3 : DepthIs(k, depth)
               /\ IF OpensLevel(line) # 0 THEN DepthIs(k, OpensLevel(line) - 1)
                  ELSE IF ClosesLevel(line) # 0 THEN DepthIs(k, ClosesLevel(line))
                  ELSE IF IsRtLine(line) \/ IsSgLine(line) THEN DepthIs(k, 3)
                  ELSE /\ \/ IsIgwLine(line)
                          \/ line \in Range(Footer)
                          \/ line = GraphDeclaration
                       /\ DepthIs(k, 0)
      /\ Returned => DepthIs(Len(Lines) + 1, 0)

\* A returned diagram with two VPC blocks, of which one holds two AZ blocks
\* and a subnet block holding a route table and a security group.
C9_Witness ==
    /\ Returned
    /\ Len(TheVpcs) = 2
    /\ \E v \in DOMAIN TheVpcs :
         /\ Cardinality({TheVpcs[v].subnets[n].az : n \in DOMAIN TheVpcs[v].subnets}) = 2
         /\ \E n \in DOMAIN TheVpcs[v].subnets, r \in DOMAIN TheVpcs[v].route_tables :
              Listed(TheVpcs[v].subnets[n], TheVpcs[v].route_tables[r])
         /\ TheVpcs[v].security_groups # <<>>
    /\ \E k \in DOMAIN Lines : IsRtLine(Lines[k])
    /\ \E k \in DOMAIN Lines : IsSgLine(Lines[k])

----------------------------------------------------------------------------
\* The az values of subnets in the order of their first occurrence.
RECURSIVE FirstOccurrences(_, _)
FirstOccurrences(subnets, seen) ==
    IF subnets = <<>> THEN <<>>
    ELSE IF Head(subnets).az \in seen THEN FirstOccurrences(Tail(subnets), seen)
    ELSE <<Head(subnets).az>> \o FirstOccurrences(Tail(subnets), seen \cup {Head(subnets).az})

\* The subnets of an az, the route tables listing a subnet: in input order.
RECURSIVE Keep(_, _)
Keep(Test(_), s) ==
    IF s = <<>> THEN <<>>
    ELSE (IF Test(Head(s)) THEN <<Head(s)>> ELSE <<>>) \o Keep(Test, Tail(s))

\* The lines numbered from..to that satisfy Test, in order.
Among(from, to, Test(_)) == Keep(Test, SubSeq(Lines, from, to))

(* C10: in a returned diagram the VPC blocks stand in the order of           *)
(* model.vpcs; in a VPC block the AZ blocks stand in the order in which each *)
(* az first occurs in vpc.subnets; in an AZ block the subnet blocks are the  *)
(* subnets of that az in the order of vpc.subnets; and a subnet block holds, *)
(* between its opening and closing lines, first the node and edge of each    *)
(* associated route table in the order of vpc.route_tables and then the node *)
(* and edge of each security group in the order of vpc.security_groups, and  *)
(* nothing else.                                                             *)
C10_EmissionFollowsModelOrder ==
    Returned =>
      LET vpcOpens == Among(1, Len(Lines), IsVpcOpen)
      IN
      /\ Len(vpcOpens) = Len(TheVpcs)
      /\ \A v \in DOMAIN TheVpcs : HasPrefix(vpcOpens[v], VpcOpenPrefix(TheVpcs[v]))
      /\ \A v \in DOMAIN TheVpcs :
           LET vpc == TheVpcs[v]
               azs == FirstOccurrences(vpc.subnets, {})
           IN  \A i \in VpcOpens(vpc) :
                 /\ ClosesAfter(i, VpcEnd) # {}
                 /\ Among(i + 1, CloseOf(i, VpcEnd) - 1, IsAzOpen)
                       = [a \in DOMAIN azs |-> AzOpenLine(azs[a])]
                 /\ \A a \in VpcInside(i) :
                      IsAzOpen(Lines[a]) =>
                        /\ ClosesAfter(a, AzEnd) # {}
                        /\ LET InThisAz(subnet) == AzOpenLine(subnet.az) = Lines[a]
                               members == Keep(InThisAz, vpc.subnets)
                               opens == Among(a + 1, CloseOf(a, AzEnd) - 1, IsSubnetOpen)
                           IN  /\ Len(opens) = Len(members)
                               /\ \A m \in DOMAIN members :
                                    HasPrefix(opens[m], SubnetOpenPrefix(members[m]))
                 /\ \A n \in DOMAIN vpc.subnets :
                      \A k \in SubnetOpens(vpc.subnets[n]) :
                        /\ ClosesAfter(k, SubnetEnd) # {}
                        /\ LET subnet == vpc.subnets[n]
                               ListsIt(rt) == Listed(subnet, rt)
                               rts == Keep(ListsIt, vpc.route_tables)
                               sgs == vpc.security_groups
                               body == SubSeq(Lines, k + 1, CloseOf(k, SubnetEnd) - 1)
                           IN  /\ Len(body) = 2 * Len(rts) + 2 * Len(sgs)
                               /\ \A r \in DOMAIN rts :
                                    /\ HasPrefix(body[2 * r - 1], RtNodePrefix(rts[r]))
                                    /\ body[2 * r] = RtEdge(rts[r], subnet)
                               /\ \A g \in DOMAIN sgs :
                                    /\ HasPrefix(body[2 * Len(rts) + 2 * g - 1], SgNodePrefix(sgs[g]))
                                    /\ body[2 * Len(rts) + 2 * g] = SgEdge(sgs[g], subnet)

\* A returned diagram of two VPCs, the first with subnets in two availability
\* zones of which the alphabetically later one occurs first.
C10_Witness ==
    /\ Returned
    /\ Len(TheVpcs) = 2
    /\ Len(TheVpcs[1].subnets) >= 2
    /\ TheVpcs[1].subnets[1].az = AzB
    /\ TheVpcs[1].subnets[2].az = AzA

----------------------------------------------------------------------------
(* C8: for a model with no VPC, generate_diagram returns the graph           *)
(* declaration followed by the eleven lines of the style footer, joined by   *)
(* a line break and four spaces, and nothing else.                           *)
C8_EmptyModelOutput ==
    (Returned /\ TheVpcs = <<>>) =>
      /\ Lines = <<GraphDeclaration>> \o Footer
      /\ last.text =
           <<"graph TB", "\n    ",
             "    %% Styling", "\n    ",
             "    classDef vpc fill:#f5f5f5,stroke:#333,stroke-width:2px", "\n    ",
             "    classDef az fill:#e6f3ff,stroke:#333,stroke-width:1px", "\n    ",
             "    classDef subnet fill:#fff,stroke:#333,stroke-width:1px", "\n    ",
             "    classDef component fill:#fff,stroke:#666,stroke-width:1px,stroke-dasharray: 5 5", "\n    ",
             "\n    ",
             "    %% Apply styles", "\n    ",
             "    class vpc vpc", "\n    ",
             "    class az1 az", "\n    ",
             "    class pub_subnet,priv_subnet subnet", "\n    ",
             "    class pub_rt,web_sg,igw component">>

\* generate_diagram has returned for a model without VPCs.
C8_Witness == Returned /\ TheVpcs = <<>>

----------------------------------------------------------------------------
(* C4: any two calls of generate_diagram on equal models, whether on the     *)
(* same generator or on generators built anew, have the same outcome: the    *)
(* same returned text, or the same exception.                                *)
C4_SameModelSameOutput ==
    \A first \in outputs, second \in outputs :
        first.data = second.data => first.outcome = second.outcome

\* Two calls have been made, the second on a generator whose self.diagram
\* still held the first call's lines, and it returned a diagram with a VPC.
C4_Witness ==
    /\ calls >= 2
    /\ Returned
    /\ TheVpcs # <<>>
    /\ outputs # {}

----------------------------------------------------------------------------
(* C7: .replace('-', '_') gives a string of the same length without any      *)
(* hyphen, with an underscore wherever there was a hyphen and every other    *)
(* character unchanged; applied again it changes nothing.                    *)
C7_SanitizeIdempotentHyphenFree ==
    /\ Len(tokens) >= 2 =>
         /\ Len(tokens[2]) = Len(tokens[1])
         /\ \A i \in DOMAIN tokens[2] :
              /\ tokens[2][i] # "-"
              /\ tokens[1][i] = "-" => tokens[2][i] = "_"
              /\ tokens[1][i] # "-" => tokens[2][i] = tokens[1][i]
    /\ Len(tokens) >= 3 => tokens[3] = tokens[2]

\* The replacement applied twice to a string with two hyphens and a letter.
C7_Witness ==
    /\ Len(tokens) >= 3
    /\ Cardinality({i \in DOMAIN tokens[1] : tokens[1][i] = "-"}) >= 2
    /\ "a" \in Range(tokens[1])

----------------------------------------------------------------------------
\* Whether sub occurs in line as a run of consecutive pieces.
Contains(line, sub) ==
    \E k \in 1..(Len(line) - Len(sub) + 1) : SubSeq(line, k, k + Len(sub) - 1) = sub

\* A route or a rule of the generator's model that lacks a key its label reads.
RouteLacksField(route) ==
    "destination" \notin DOMAIN route \/ "target" \notin DOMAIN route

RuleLacksField(rule) == "port_range" \notin DOMAIN rule

\* The route tables and security groups generate_diagram renders: a route
\* table listed by a subnet of its VPC, every security group of a VPC that
\* has a subnet.
RenderedRouteTables(data) ==
    UNION {{rt \in Range(data.vpcs[v].route_tables) :
               \E n \in DOMAIN data.vpcs[v].subnets : Listed(data.vpcs[v].subnets[n], rt)}
             : v \in DOMAIN data.vpcs}

RenderedSecurityGroups(data) ==
    UNION {Range(data.vpcs[v].security_groups) :
             v \in {v \in DOMAIN data.vpcs : data.vpcs[v].subnets # <<>>}}

RendersMissingField(data) ==
    \/ \E rt \in RenderedRouteTables(data) :
         \E i \in DOMAIN rt.routes : RouteLacksField(rt.routes[i])
    \/ \E sg \in RenderedSecurityGroups(data) :
         \E i \in DOMAIN sg.rules_ingress : RuleLacksField(sg.rules_ingress[i])

\* C5 as stated: whenever generate_diagram has been called on a model in which
\* a rendered route lacks 'destination' or 'target', or a rendered rule lacks
\* 'port_range', it has returned (no error raised), and the label of that
\* route table holds "Unknown", the label of that security group "All".
C5_EmitterSubstitutesPlaceholders ==
    (last # NoCall /\ RendersMissingField(generator.data)) =>
      /\ Returned
      /\ \A rt \in RenderedRouteTables(generator.data) :
           (\E i \in DOMAIN rt.routes : RouteLacksField(rt.routes[i])) =>
              \E k \in DOMAIN Lines :
                 HasPrefix(Lines[k], RtNodePrefix(rt)) /\ "Unknown" \in Range(Lines[k])
      /\ \A sg \in RenderedSecurityGroups(generator.data) :
           (\E i \in DOMAIN sg.rules_ingress : RuleLacksField(sg.rules_ingress[i])) =>
              \E k \in DOMAIN Lines :
                 HasPrefix(Lines[k], SgNodePrefix(sg)) /\ "All" \in Range(Lines[k])

\* What a route or a rule of the account holds, read item by item.
HasKey(route, key) == \E n \in DOMAIN route : route[n].k = key
ValueOf(route, key) == route[CHOOSE n \in DOMAIN route : route[n].k = key].v
HasIdKey(route) == \E n \in DOMAIN route : route[n].k \in IdKeys
FirstIdValue(route) ==
    route[CHOOSE n \in DOMAIN route :
            route[n].k \in IdKeys /\ \A m \in 1..(n - 1) : route[m].k \notin IdKeys].v

DestinationText(route) ==
    IF HasKey(route, "DestinationCidrBlock")
    THEN ValueOf(route, "DestinationCidrBlock") ELSE <<"Unknown">>

TargetText(route) == IF HasIdKey(route) THEN FirstIdValue(route) ELSE <<"Unknown">>

PortText(rule, key) == IF key \in DOMAIN rule THEN ToString(rule[key]) ELSE "All"

\* The account's route tables and security groups of a VPC the account lists.
CollectedRouteTables ==
    {rt \in Range(aws.RouteTables) : \E v \in DOMAIN aws.Vpcs : aws.Vpcs[v].VpcId = rt.VpcId}
CollectedSecurityGroups ==
    {sg \in Range(aws.SecurityGroups) : \E v \in DOMAIN aws.Vpcs : aws.Vpcs[v].VpcId = sg.VpcId}

\* The route tables (security groups) of the collected model with a given id.
InBody(kind, id) ==
    UNION {{x \in Range(response.body.vpcs[v][kind]) : x.id = id}
             : v \in DOMAIN response.body.vpcs}

(* C5, amended.  The placeholders are the collector's, not the emitter's:    *)
(* (a) get_network_resources gives every route of the account a destination *)
(* and a target, "Unknown" standing for a missing DestinationCidrBlock and   *)
(* for a route without any key ending in 'Id', and every ingress rule a port *)
(* range "<from>-<to>" with "All" for a missing FromPort or ToPort;          *)
(* (b) generate_diagram called on the collected model returns, and the label *)
(* of every route table and security group shows these values;               *)
(* (c) generate_diagram itself substitutes nothing: a call raises KeyError   *)
(* exactly when the model has a rendered route lacking 'destination' or      *)
(* 'target' or a rendered rule lacking 'port_range'.                         *)
C5_CollectorSubstitutesPlaceholders ==
    /\ response # NoResponse =>
         /\ \A raw \in CollectedRouteTables :
              /\ InBody("route_tables", raw.RouteTableId) # {}
              /\ \A rt \in InBody("route_tables", raw.RouteTableId) :
                   /\ Len(rt.routes) = Len(raw.Routes)
                   /\ \A i \in DOMAIN raw.Routes :
                        /\ rt.routes[i].destination = DestinationText(raw.Routes[i])
                        /\ rt.routes[i].target = TargetText(raw.Routes[i])
         /\ \A raw \in CollectedSecurityGroups :
              /\ InBody("security_groups", raw.GroupId) # {}
              /\ \A sg \in InBody("security_groups", raw.GroupId) :
                   /\ Len(sg.rules_ingress) = Len(raw.IpPermissions)
                   /\ \A i \in DOMAIN raw.IpPermissions :
                        sg.rules_ingress[i].port_range =
                           <<PortText(raw.IpPermissions[i], "FromPort"), "-",
                             PortText(raw.IpPermissions[i], "ToPort")>>
    /\ (response # NoResponse /\ generator.constructed /\ last # NoCall
            /\ generator.data = response.body) =>
         /\ Returned
         /\ \A raw \in CollectedRouteTables :
              \A rt \in InBody("route_tables", raw.RouteTableId) \cap RenderedRouteTables(generator.data) :
                 \E k \in DOMAIN Lines :
                    /\ HasPrefix(Lines[k], RtNodePrefix(rt))
                    /\ \A i \in DOMAIN raw.Routes :
                         Contains(Lines[k], <<"- ">> \o DestinationText(raw.Routes[i])
                                               \o <<" → ">> \o TargetText(raw.Routes[i]))
         /\ \A raw \in CollectedSecurityGroups :
              \A sg \in InBody("security_groups", raw.GroupId) \cap RenderedSecurityGroups(generator.data) :
                 \E k \in DOMAIN Lines :
                    /\ HasPrefix(Lines[k], SgNodePrefix(sg))
                    /\ \A i \in DOMAIN raw.IpPermissions :
                         Contains(Lines[k], <<" ", PortText(raw.IpPermissions[i], "FromPort"), "-",
                                              PortText(raw.IpPermissions[i], "ToPort"), " from ">>)
    /\ last # NoCall =>
         /\ last.kind = "raised" <=> RendersMissingField(generator.data)
         /\ last.kind = "raised" =>
              /\ last.exception = "KeyError"
              /\ last.key \in {"destination", "target", "port_range"}

\* generate_diagram has returned on the model collected from an account with
\* a route that has neither DestinationCidrBlock nor a key ending in 'Id' and
\* a rule without FromPort and ToPort.
C5_Witness ==
    /\ response # NoResponse
    /\ generator.constructed
    /\ generator.data = response.body
    /\ Returned
    /\ \E raw \in CollectedRouteTables :
         /\ InBody("route_tables", raw.RouteTableId) \cap RenderedRouteTables(generator.data) # {}
         /\ \E i \in DOMAIN raw.Routes :
              ~HasKey(raw.Routes[i], "DestinationCidrBlock") /\ ~HasIdKey(raw.Routes[i])
    /\ \E raw \in CollectedSecurityGroups :
         \E i \in DOMAIN raw.IpPermissions :
            "FromPort" \notin DOMAIN raw.IpPermissions[i]
               /\ "ToPort" \notin DOMAIN raw.IpPermissions[i]
    /\ \E k \in DOMAIN Lines : "Unknown" \in Range(Lines[k])
    /\ \E k \in DOMAIN Lines : "All" \in Range(Lines[k])

=============================================================================
